---- MODULE Spec2Model ----
(***************************************************************************)
(* Model of the static blog generator of src/main.js (the second, current  *)
(* program text, lines 164-485): main and the stages it awaits, the posts  *)
(* and pages loops, the asset loop with its floating writes, and the pure  *)
(* string functions that compute the output urls.                          *)
(*                                                                         *)
(* File names, urls and paths are sequences of one-character strings, so   *)
(* that the regular expressions of the code are computed, not assumed.     *)
(***************************************************************************)
EXTENDS Naturals, Sequences, FiniteSets, TLC

(***************************************************************************)
(* Bounds of the model.                                                    *)
(***************************************************************************)
MaxPosts == 2
MaxPages == 2
MaxAssets == 2

(***************************************************************************)
(* Strings.                                                                *)
(***************************************************************************)
SeqToSet(s) == { s[i] : i \in 1..Len(s) }

\* String.prototype.toLowerCase on the letters the file names use (the /i flag).
Lower(c) ==
    CASE c = "M" -> "m"
      [] c = "D" -> "d"
      [] c = "H" -> "h"
      [] c = "T" -> "t"
      [] c = "L" -> "l"
      [] OTHER -> c

\* A pattern is a sequence of lower-case literals and of "ANY" (the regex dot).
MatchesAt(s, i, pat) ==
    /\ i >= 1
    /\ i + Len(pat) - 1 <= Len(s)
    /\ \A k \in 1..Len(pat) :
          \/ pat[k] = "ANY" /\ s[i + k - 1] # "\n"
          \/ pat[k] # "ANY" /\ Lower(s[i + k - 1]) = pat[k]

\* The string with the n characters from position i removed.
Cut(s, i, n) == SubSeq(s, 1, i - 1) \o SubSeq(s, i + n, Len(s))

StartsWith(s, prefix) ==
    /\ Len(prefix) <= Len(s)
    /\ SubSeq(s, 1, Len(prefix)) = prefix

EndsWith(s, suffix) ==
    /\ Len(suffix) <= Len(s)
    /\ SubSeq(s, Len(s) - Len(suffix) + 1, Len(s)) = suffix

Includes(s, sub) ==
    \E i \in 1..Len(s) : i + Len(sub) - 1 <= Len(s) /\ SubSeq(s, i, i + Len(sub) - 1) = sub

\* postPath.replace(/.md/i, ''): the leftmost match only (no g flag).
PostExtPattern == <<"ANY", "m", "d">>

ReplaceFirst(s, pat) ==
    LET hits == { i \in 1..Len(s) : MatchesAt(s, i, pat) }
    IN  IF hits = {} THEN s
        ELSE LET i == CHOOSE h \in hits : \A g \in hits : h <= g
             IN  Cut(s, i, Len(pat))

\* const url = `/blog/${postPath.replace(/.md/i, '')}`
PostUrl(postPath) == <<"/", "b", "l", "o", "g", "/">> \o ReplaceFirst(postPath, PostExtPattern)

\* pagePath.replace(/(index)?.html/i, ''): at the leftmost position where either
\* alternative matches, the greedy one (with index) is tried first.
PageWithIndex == <<"i", "n", "d", "e", "x", "ANY", "h", "t", "m", "l">>
PageNoIndex == <<"ANY", "h", "t", "m", "l">>

PageReplace(s) ==
    LET hits == { i \in 1..Len(s) : MatchesAt(s, i, PageWithIndex) \/ MatchesAt(s, i, PageNoIndex) }
    IN  IF hits = {} THEN s
        ELSE LET i == CHOOSE h \in hits : \A g \in hits : h <= g
             IN  IF MatchesAt(s, i, PageWithIndex)
                 THEN Cut(s, i, Len(PageWithIndex))
                 ELSE Cut(s, i, Len(PageNoIndex))

\* const url = `/${pagePath.replace(/(index)?.html/i, '')}`
PageUrl(pagePath) == <<"/">> \o PageReplace(pagePath)

\* path.replace(/^\//, '')
StripLeadingSlash(path) == IF Len(path) > 0 /\ path[1] = "/" THEN Tail(path) ELSE path

\* path.resolve on relative segments, relative to dist: the non-empty segments
\* joined by one separator (a trailing separator of a segment is dropped).
RECURSIVE JoinSegments(_)
JoinSegments(segs) ==
    IF segs = <<>> THEN <<>>
    ELSE LET h == IF Len(Head(segs)) > 0 /\ Head(segs)[Len(Head(segs))] = "/"
                  THEN SubSeq(Head(segs), 1, Len(Head(segs)) - 1)
                  ELSE Head(segs)
             t == JoinSegments(Tail(segs))
         IN  IF h = <<>> THEN t
             ELSE IF t = <<>> THEN h
             ELSE h \o <<"/">> \o t

\* resolveDist(...paths): the path below dist.
resolveDist(paths) == JoinSegments([i \in 1..Len(paths) |-> StripLeadingSlash(paths[i])])

IndexHtml == <<"i", "n", "d", "e", "x", ".", "h", "t", "m", "l">>

\* path.extname: from the last dot of the base name, '' when there is none or
\* when the only dot starts the base name.
LastIndexOf(s, c) ==
    LET at == { i \in 1..Len(s) : s[i] = c }
    IN  IF at = {} THEN 0 ELSE CHOOSE d \in at : \A e \in at : e <= d

basename(s) == SubSeq(s, LastIndexOf(s, "/") + 1, Len(s))

extname(s) ==
    LET b == basename(s)
    IN  IF LastIndexOf(b, ".") <= 1 THEN <<>> ELSE SubSeq(b, LastIndexOf(b, "."), Len(b))

(***************************************************************************)
(* The content tree the build reads: file names of posts/, pages/ and      *)
(* assets/, and what a post's front matter may define.                     *)
(***************************************************************************)
GitKeep == <<".", "g", "i", "t", "k", "e", "e", "p">>

PostNames ==
    { <<"a", ".", "m", "d">>,
      <<"c", "m", "d", ".", "m", "d">>,
      GitKeep }

PageNames ==
    { IndexHtml,
      <<"b", "l", "o", "g", ".", "h", "t", "m", "l">>,
      <<"x", "h", "t", "m", "l", ".", "h", "t", "m", "l">>,
      <<"d", "h", "t", "m", "l", ".", "h", "t", "m", "l">>,
      GitKeep }

AssetDir == <<"a", "s", "s", "e", "t", "s", "/">>

\* The files below assets/, in the order readdirSync lists them.
AssetOrder ==
    << AssetDir \o <<"s", ".", "c", "s", "s">>,
       AssetDir \o GitKeep,
       AssetDir \o <<"l", ".", "p", "n", "g">>,
       AssetDir \o <<"a", ".", "j", "s">> >>

\* The trees of assets/: the placeholder .gitkeep and at most max asset files,
\* in directory order.
RECURSIVE Pick(_, _)
Pick(seq, present) ==
    IF seq = <<>> THEN <<>>
    ELSE IF Head(seq) \in present THEN <<Head(seq)>> \o Pick(Tail(seq), present)
    ELSE Pick(Tail(seq), present)

AssetListings(max) ==
    { Pick(AssetOrder, present \cup {AssetDir \o GitKeep}) :
        present \in { q \in SUBSET (SeqToSet(AssetOrder) \ {AssetDir \o GitKeep}) :
                        Cardinality(q) <= max } }

\* The listings a directory read can return: distinct names, in any order.
Listings(names, max) ==
    UNION { { s \in [1..n -> names] : \A i, j \in 1..n : i # j => s[i] # s[j] } : n \in 0..max }

ReservedKeys == {"content", "url", "createdAt", "updatedAt"}

\* The key sets of a front-matter block: no key at all, or an author's key
\* together with the four names the pipeline computes.
FrontMatters == { {}, {"title"} \cup ReservedKeys }

\* A value of the template data: where it comes from and, for the url, its text.
FrontMatterValue == [from |-> "frontmatter", val |-> <<>>]
Computed(val) == [from |-> "computed", val |-> val]

\* gray-matter's data for a block defining the keys ks.
MatterData(ks) == [k \in ks |-> FrontMatterValue]

Stages == <<"clean", "config", "filters", "mkdirp", "highlighter", "posts", "pages", "assets">>

(***************************************************************************)
(* State.                                                                  *)
(***************************************************************************)
VARIABLES
    pc,          \* main's position: the statement it is at or awaits
    err,         \* the exception that ended main ("none" while it runs)
    started,     \* the stages started, in order
    completed,   \* the stages whose awaited call has returned
    logged,      \* the messages written by log, loader.succeed and console.log
    config,      \* resolveConfig's result
    filters,     \* njkRenderer's filter registry (names)
    hl,          \* the shiki highlighter
    hook,        \* marked's highlight option is set
    renders,     \* the filter registry each renderString call ran with
    dist,        \* the output tree: path below dist -> file
    pending,     \* writes started and not yet finished
    unhandled,   \* paths of writes that failed with nobody awaiting them
    written,     \* every write of this run that finished
    postsPath,   \* generatePosts: the directory listing, while it runs
    pi,          \* generatePosts: index of the loop, while it runs
    cur,         \* the post or page being built
    posts,       \* generatePosts: the accumulated array
    postsRet,    \* what generatePosts returned
    pagesPath,   \* generateRoutes: the directory listing, while it runs
    gi,          \* generateRoutes: index of the loop, while it runs
    pages,       \* generateRoutes: the accumulated array
    pagesRet,    \* what generateRoutes returned
    assets,      \* processAndCopyAssets: what readdirRecursive('assets') gave
    files,       \* processAndCopyAssets: the filtered recursive listing
    ai,          \* processAndCopyAssets: index of the loop
    scans        \* what each purge scan of dist/**/*.html found

ctl == <<pc, err, started, completed, logged>>
env == <<config, filters, hl, hook, renders>>
out == <<dist, pending, unhandled, written>>
postv == <<postsPath, pi, cur, posts, postsRet>>
pagev == <<pagesPath, gi, pages, pagesRet>>
assetv == <<assets, files, ai, scans>>
vars == <<ctl, env, out, postv, pagev, assetv>>

NoData == MatterData({})
NoItem == [src |-> <<>>, url |-> <<>>, data |-> NoData, content |-> "none"]

\* A file of the output tree: the step that wrote it, the source file it was
\* made from, and what it was rendered with (a post: its metadata; a page: the
\* posts it was given).
File(by, src, data) == [by |-> by, src |-> src, data |-> data]

\* What the earlier build left under dist: a file no source file stands for
\* any more, alone or with a file at a path that this build writes again.
StaleFile == <<"o", "l", "d", ".", "h", "t", "m", "l">>
EmptyTree == [p \in {} |-> File("prior", <<>>, <<>>)]
PriorTrees ==
    { [p \in {StaleFile} |-> File("prior", <<>>, <<>>)],
      [p \in {StaleFile, IndexHtml} |-> File("prior", <<>>, <<>>)] }

Put(tree, path, file) ==
    [p \in DOMAIN tree \cup {path} |-> IF p = path THEN file ELSE tree[p]]

Init ==
    /\ pc = "clean"
    /\ err = "none"
    /\ started = <<"clean">>
    /\ completed = {}
    /\ logged = {"Starting the whole thing"}
    /\ config = "unread"
    /\ filters = {}
    /\ hl = "none"
    /\ hook = FALSE
    /\ renders = {}
    /\ dist \in PriorTrees
    /\ pending = {}
    /\ unhandled = {}
    /\ written = {}
    /\ postsPath = <<>>
    /\ pi = 1
    /\ cur = NoItem
    /\ posts = <<>>
    /\ postsRet = "pending"
    /\ pagesPath = <<>>
    /\ gi = 1
    /\ pages = <<>>
    /\ pagesRet = "pending"
    /\ assets = <<>>
    /\ files = <<>>
    /\ ai = 1
    /\ scans = <<>>

(***************************************************************************)
(* main: the order of its awaited stages, and how an exception ends it.    *)
(***************************************************************************)
\* A main that builds the pages before the posts.
PagesBeforePosts ==
    <<"clean", "config", "filters", "mkdirp", "highlighter", "pages", "posts", "assets">>

\* A main that sets the highlighter up after the posts are built.
HighlighterAfterPosts ==
    <<"clean", "config", "filters", "mkdirp", "posts", "highlighter", "pages", "assets">>

\* A main that registers the filters after the posts are built.
FiltersAfterPosts ==
    <<"clean", "config", "mkdirp", "highlighter", "posts", "filters", "pages", "assets">>

\* The stages in the order main awaits them.
mainSequence == Stages

IndexIn(seq, x) == CHOOSE i \in 1..Len(seq) : seq[i] = x

\* An exception that is logged where it is thrown, main going on.
Swallow(kind) ==
    /\ err' = kind
    /\ logged' = logged \cup {"error"}
    /\ UNCHANGED <<pc, started, completed>>

\* main().catch(err => console.log(err)): an exception thrown by an awaited call
\* leaves main; nothing after the throwing statement runs.
Throw(kind) ==
    /\ pc' = "failed"
    /\ err' = kind
    /\ logged' = logged \cup {"error"}
    /\ UNCHANGED <<started, completed>>

\* loader.succeed(...) of each stage.
SucceedText(s) ==
    CASE s = "posts" -> "posts processed successfully"
      [] s = "pages" -> "pages processed successfully"
      [] s = "assets" -> "All assets processed successfully"
      [] OTHER -> s

\* The awaited call of stage s has returned: loader.succeed, then the next
\* loader.start and the next stage's call; after the last one, log.success.
Advance(s) ==
    /\ completed' = completed \cup {s}
    /\ IF IndexIn(mainSequence, s) = Len(mainSequence)
       THEN /\ pc' = "done"
            /\ started' = started
            /\ logged' = logged \cup {SucceedText(s), "Build successful!"}
       ELSE /\ pc' = mainSequence[IndexIn(mainSequence, s) + 1]
            /\ started' = Append(started, mainSequence[IndexIn(mainSequence, s) + 1])
            /\ logged' = logged \cup {SucceedText(s)}
    /\ err' = err

\* A loop that catches what one file throws, logs it and goes on with the file.
CaughtPerItem(kind) ==
    /\ err' = kind
    /\ logged' = logged \cup {"error"}
    /\ pc' = (IF pc = "page_render" THEN "page_push" ELSE "post_push")
    /\ UNCHANGED <<started, completed>>

\* The loops of generatePosts and generateRoutes hold no try/catch: what
\* matter, marked or renderString throws for one file leaves the loop, the
\* function and main.
ContentFailure(kind) == Throw(kind)

Goto(label) ==
    /\ pc' = label
    /\ UNCHANGED <<err, started, completed, logged>>

\* main waits for the write it awaits.
Blocked == \E w \in pending : w.awaited

\* A clean step that leaves the folder as it finds it.
NotRemoved(tree) == tree

\* remove(distDir): the folder goes with all it holds.
Removed(tree) == EmptyTree

\* if (await exists(distDir)) await remove(distDir)
Clean ==
    /\ pc = "clean"
    /\ \/ dist' = Removed(dist) /\ Advance("clean")
       \/ dist' = dist /\ Throw("FilesystemError")
    /\ UNCHANGED <<env, pending, unhandled, written, postv, pagev, assetv>>

\* The filters of config.js.
ConfigFilters == {"date"}

\* const config = await resolveConfig(): undefined without a config.js, else its
\* default export (an object, with or without a filters entry); import may throw.
ResolveConfig ==
    /\ pc = "config"
    /\ \/ \E c \in {"undefined", "object", "nofilters"} : config' = c /\ Advance("config")
       \/ config' = config /\ Throw("ConfigError")
    /\ UNCHANGED <<filters, hl, hook, renders, out, postv, pagev, assetv>>

\* await processConfig(config)
ProcessConfig ==
    /\ pc = "filters"
    /\ \/ config = "undefined" /\ filters' = filters /\ Advance("filters")
       \/ config = "object" /\ filters' = filters \cup ConfigFilters /\ Advance("filters")
       \/ config = "nofilters" /\ filters' = filters /\ Throw("TypeError")
    /\ UNCHANGED <<config, hl, hook, renders, out, postv, pagev, assetv>>

\* await mkdirp(distDir)
Mkdirp ==
    /\ pc = "mkdirp"
    /\ \/ Advance("mkdirp")
       \/ Throw("FilesystemError")
    /\ UNCHANGED <<env, out, postv, pagev, assetv>>

\* const hl = await shiki.getHighlighter(...); marked.setOptions({ highlight })
SetupHighlighter ==
    /\ pc = "highlighter"
    /\ \/ hl' = "ready" /\ hook' = TRUE /\ Advance("highlighter")
       \/ hl' = hl /\ hook' = hook /\ Throw("HighlighterError")
    /\ UNCHANGED <<config, filters, renders, out, postv, pagev, assetv>>

(***************************************************************************)
(* Writes. outputFile and copy return a promise: the write is pending      *)
(* until WriteDone; main waits for it only where the call is awaited.      *)
(***************************************************************************)
Write(path, file, awaited) == [path |-> path, file |-> file, awaited |-> awaited]

\* A call whose promise is dropped.
NotAwaited == FALSE

\* await outputFile(...) in generatePosts and in generateRoutes.
postWriteAwaited == TRUE
pageWriteAwaited == TRUE
\* copy(filePath, resolveDist(filePath)) and outputFile(resolveDist(filePath),
\* content) in processAndCopyAssets: the promise is dropped.
copyAwaited == FALSE
assetWriteAwaited == FALSE

WriteDone(w) ==
    /\ w \in pending
    /\ pending' = pending \ {w}
    /\ \/ /\ dist' = Put(dist, w.path, w.file)
          /\ written' = written \cup {[path |-> w.path, file |-> w.file]}
          /\ UNCHANGED <<ctl, unhandled>>
       \/ /\ w.awaited
          /\ Throw("FilesystemError")
          /\ UNCHANGED <<dist, unhandled, written>>
       \/ /\ ~w.awaited
          /\ unhandled' = unhandled \cup {w.path}
          /\ UNCHANGED <<ctl, dist, written>>
    /\ UNCHANGED <<env, postv, pagev, assetv>>

(***************************************************************************)
(* generatePosts.                                                          *)
(***************************************************************************)
\* const postsPath = await readdir(postsDir)
ReadPostsDir ==
    /\ pc = "posts"
    /\ \/ \E l \in Listings(PostNames, MaxPosts) : postsPath' = l /\ Goto("posts_layout")
       \/ postsPath' = postsPath /\ Throw("FilesystemError")
    /\ UNCHANGED <<env, out, pi, cur, posts, postsRet, pagev, assetv>>

\* const layout = await readFile(blogLayout); if (!postsPath.length) return;
\* const posts = [];
ReadLayout ==
    /\ pc = "posts_layout"
    /\ \/ Len(postsPath) = 0 /\ postsRet' = "undefined" /\ Goto("posts_return")
       \/ Len(postsPath) > 0 /\ postsRet' = postsRet /\ Goto("post_next")
       \/ postsRet' = postsRet /\ Throw("FilesystemError")
    /\ UNCHANGED <<env, out, postsPath, pi, cur, posts, pagev, assetv>>

\* for (const postPath of postsPath): the loop's head, the .gitkeep filter, the
\* url and, after the last post, return posts (the listing and the loop's index
\* are locals: they are gone once the function has returned).
PostNext ==
    /\ pc = "post_next"
    /\ \/ /\ pi > Len(postsPath)
          /\ postsRet' = "array"
          /\ Goto("posts_return")
          /\ postsPath' = <<>>
          /\ pi' = 1
          /\ UNCHANGED <<cur>>
       \/ /\ pi <= Len(postsPath)
          /\ StartsWith(postsPath[pi], <<".">>)
          /\ pi' = pi + 1
          /\ Goto("post_next")
          /\ UNCHANGED <<cur, postsRet, postsPath>>
       \/ /\ pi <= Len(postsPath)
          /\ ~StartsWith(postsPath[pi], <<".">>)
          /\ cur' = [NoItem EXCEPT !.src = postsPath[pi], !.url = PostUrl(postsPath[pi])]
          /\ Goto("post_markdown")
          /\ UNCHANGED <<pi, postsRet, postsPath>>
    /\ UNCHANGED <<env, out, posts, pagev, assetv>>

\* marked.parse(content): code blocks go through the highlight hook when set.
Marked == IF hook THEN "highlighted" ELSE "plain"

\* const [content, data] = await processMarkdown(postFile);
\* const [createdAt, updatedAt] = await extractStats(postFile);
ProcessMarkdown ==
    /\ pc = "post_markdown"
    /\ \/ \E ks \in FrontMatters :
             /\ cur' = [cur EXCEPT !.data = MatterData(ks), !.content = Marked]
             /\ Goto("post_render")
       \/ cur' = cur /\ ContentFailure("ParseError")
       \/ cur' = cur /\ Throw("FilesystemError")
    /\ UNCHANGED <<env, out, postsPath, pi, posts, postsRet, pagev, assetv>>

\* const metadata = { ...data, createdAt, updatedAt, content, url }: the keys
\* written after the spread replace the front matter's.
ComputedValue(k, content, url) ==
    CASE k = "url" -> Computed(url)
      [] k = "content" -> Computed(<<content>>)
      [] k = "createdAt" -> Computed(<<"birthtime">>)
      [] k = "updatedAt" -> Computed(<<"mtime">>)

\* The template data without the url, the front matter spread last.
MetadataWithoutUrl(data, content, url) ==
    [k \in DOMAIN data \cup (ReservedKeys \ {"url"}) |->
        IF k \in DOMAIN data THEN data[k] ELSE ComputedValue(k, content, url)]

\* The template data with the front matter spread last.
FrontMatterLast(data, content, url) ==
    [k \in DOMAIN data \cup ReservedKeys |->
        IF k \in DOMAIN data THEN data[k] ELSE ComputedValue(k, content, url)]

Metadata(data, content, url) ==
    [k \in DOMAIN data \cup ReservedKeys |->
        IF k \in ReservedKeys THEN ComputedValue(k, content, url) ELSE data[k]]

\* const compiled = njkRenderer.renderString(layout, metadata);
\* await outputFile(resolveDist(url, 'index.html'), patchTemplate(compiled))
RenderPost ==
    /\ pc = "post_render"
    /\ \/ /\ pending' = pending \cup
                { Write(resolveDist(<<cur.url, IndexHtml>>),
                        File("post", cur.src, <<Metadata(cur.data, cur.content, cur.url)>>),
                        postWriteAwaited) }
          /\ Goto("post_push")
       \/ pending' = pending /\ ContentFailure("TemplateError")
    /\ renders' = renders \cup {filters}
    /\ UNCHANGED <<config, filters, hl, hook, dist, unhandled, written, postv, pagev, assetv>>

\* Array.prototype.unshift, in the place of push.
Unshift(arr, x) == <<x>> \o arr

\* Array.prototype.push
Push(arr, x) == Append(arr, x)

\* posts.push(metadata), once the awaited write is done.
PushPost ==
    /\ pc = "post_push"
    /\ ~Blocked
    /\ posts' = Push(posts, Metadata(cur.data, cur.content, cur.url))
    /\ pi' = pi + 1
    /\ cur' = NoItem
    /\ Goto("post_next")
    /\ UNCHANGED <<env, out, postsPath, postsRet, pagev, assetv>>

\* main: const posts = await generatePosts();
\* loader.succeed(`${posts.length} posts processed successfully`)
PostsReturn ==
    /\ pc = "posts_return"
    /\ \/ postsRet = "array" /\ Advance("posts")
       \/ postsRet = "undefined" /\ Throw("TypeError")
    /\ UNCHANGED <<env, out, postv, pagev, assetv>>

(***************************************************************************)
(* generateRoutes(posts).                                                  *)
(***************************************************************************)
\* const pages = []; const pagesPath = await readdir(pagesDir);
\* if (!pagesPath.length) return;
ReadPagesDir ==
    /\ pc = "pages"
    /\ \/ \E l \in Listings(PageNames, MaxPages) :
             /\ pagesPath' = l
             /\ IF Len(l) = 0
                THEN pagesRet' = "undefined" /\ Goto("pages_return")
                ELSE pagesRet' = pagesRet /\ Goto("page_next")
       \/ pagesPath' = pagesPath /\ pagesRet' = pagesRet /\ Throw("FilesystemError")
    /\ UNCHANGED <<env, out, postv, gi, pages, assetv>>

\* for (const pagePath of pagesPath): the loop's head, the .gitkeep filter and,
\* after the last page, return pages (the listing and the index are locals).
PageNext ==
    /\ pc = "page_next"
    /\ \/ /\ gi > Len(pagesPath)
          /\ pagesRet' = "array"
          /\ Goto("pages_return")
          /\ pagesPath' = <<>>
          /\ gi' = 1
          /\ UNCHANGED <<cur>>
       \/ /\ gi <= Len(pagesPath)
          /\ StartsWith(pagesPath[gi], <<".">>)
          /\ gi' = gi + 1
          /\ Goto("page_next")
          /\ UNCHANGED <<cur, pagesRet, pagesPath>>
       \/ /\ gi <= Len(pagesPath)
          /\ ~StartsWith(pagesPath[gi], <<".">>)
          /\ cur' = [NoItem EXCEPT !.src = pagesPath[gi]]
          /\ Goto("page_render")
          /\ UNCHANGED <<gi, pagesRet, pagesPath>>
    /\ UNCHANGED <<env, out, postsPath, pi, posts, postsRet, pages, assetv>>

\* const metadata = { posts }: what every page is rendered with.
PageMetadata(ps) == ps

\* const content = await readFile(pageFile); const url = ...;
\* const compiled = njkRenderer.renderString(content, metadata);
\* await outputFile(resolveDist(url, 'index.html'), patchTemplate(compiled))
RenderPage ==
    /\ pc = "page_render"
    /\ \/ /\ pending' = pending \cup
                { Write(resolveDist(<<PageUrl(cur.src), IndexHtml>>),
                        File("page", cur.src, PageMetadata(posts)),
                        pageWriteAwaited) }
          /\ cur' = [cur EXCEPT !.url = PageUrl(cur.src)]
          /\ renders' = renders \cup {filters}
          /\ Goto("page_push")
       \/ /\ pending' = pending /\ cur' = cur
          /\ renders' = renders \cup {filters}
          /\ ContentFailure("TemplateError")
       \/ pending' = pending /\ cur' = cur /\ renders' = renders /\ Throw("FilesystemError")
    /\ UNCHANGED <<config, filters, hl, hook, dist, unhandled, written,
                   postsPath, pi, posts, postsRet, pagev, assetv>>

\* pages.push(content), once the awaited write is done.
PushPage ==
    /\ pc = "page_push"
    /\ ~Blocked
    /\ pages' = Push(pages, cur.src)
    /\ gi' = gi + 1
    /\ cur' = NoItem
    /\ Goto("page_next")
    /\ UNCHANGED <<env, out, postsPath, pi, posts, postsRet, pagesPath, pagesRet, assetv>>

\* generateRoutes as a function of the listing it reads and of posts: the page
\* files it leaves in the tree when every read, render and write succeeds.
RECURSIVE RoutesTree(_, _, _)
RoutesTree(paths, ps, tree) ==
    IF paths = <<>> THEN tree
    ELSE IF StartsWith(Head(paths), <<".">>) THEN RoutesTree(Tail(paths), ps, tree)
    ELSE RoutesTree(Tail(paths), ps,
            Put(tree, resolveDist(<<PageUrl(Head(paths)), IndexHtml>>),
                File("page", Head(paths), PageMetadata(ps))))

\* main: const pages = await generateRoutes(posts);
\* loader.succeed(`${pages.length} pages processed successfully`)
PagesReturn ==
    /\ pc = "pages_return"
    /\ \/ pagesRet = "array" /\ Advance("pages")
       \/ pagesRet = "undefined" /\ Throw("TypeError")
    /\ UNCHANGED <<env, out, postv, pagev, assetv>>

(***************************************************************************)
(* processAndCopyAssets.                                                   *)
(***************************************************************************)
DotHtml == <<".", "h", "t", "m", "l">>
DotCss == <<".", "c", "s", "s">>
DotJs == <<".", "j", "s">>

\* The class names of the templates: the post layout's, and those every page
\* uses. The CSS assets hold a rule for each of them.
ClassBtn == <<"b", "t", "n">>
ClassHalf == <<"m", "d", ":", "w", "-", "1", "/", "2">>
ClassDotted == <<"w", "-", "1", ".", "5">>
LayoutClasses == <<ClassHalf>>
PageClasses == <<ClassBtn, ClassDotted>>
StyleRules == {ClassBtn, ClassHalf, ClassDotted}

TemplateClasses(file) ==
    CASE file.by = "post" -> LayoutClasses
      [] file.by = "page" -> PageClasses
      [] OTHER -> <<>>

RECURSIVE JoinWords(_)
JoinWords(words) ==
    IF words = <<>> THEN <<>>
    ELSE IF Len(words) = 1 THEN words[1]
    ELSE words[1] \o <<" ">> \o JoinWords(Tail(words))

\* The text of an html file of the output tree, as far as class names go: the
\* class attribute of its template.
HtmlText(file) ==
    IF TemplateClasses(file) = <<>> THEN <<>>
    ELSE <<"c", "l", "a", "s", "s", "=", "\"">> \o JoinWords(TemplateClasses(file)) \o <<"\"">>

\* The characters of the class [A-Za-z0-9-_:/].
ExtractorChars ==
    { "a", "b", "c", "d", "e", "f", "g", "h", "i", "j", "k", "l", "m",
      "n", "o", "p", "q", "r", "s", "t", "u", "v", "w", "x", "y", "z",
      "A", "B", "C", "D", "E", "F", "G", "H", "I", "J", "K", "L", "M",
      "N", "O", "P", "Q", "R", "S", "T", "U", "V", "W", "X", "Y", "Z",
      "0", "1", "2", "3", "4", "5", "6", "7", "8", "9", "-", "_", ":", "/" }

\* defaultExtractor: content => content.match(/[A-Za-z0-9-_:/]+/g) || [], the
\* maximal runs of the characters of the class.
defaultExtractor(content) ==
    { SubSeq(content, i, j) : <<i, j>> \in
        { ij \in (1..Len(content)) \X (1..Len(content)) :
            /\ ij[1] <= ij[2]
            /\ \A k \in ij[1]..ij[2] : content[k] \in ExtractorChars
            /\ ij[1] = 1 \/ content[ij[1] - 1] \notin ExtractorChars
            /\ ij[2] = Len(content) \/ content[ij[2] + 1] \notin ExtractorChars } }

\* purgeCSS: a rule is kept when the name of its class is among the words the
\* extractor finds in the html files of the tree.
Purge(rules, tree) ==
    { c \in rules :
        \E p \in { q \in DOMAIN tree : EndsWith(q, DotHtml) } :
           c \in defaultExtractor(HtmlText(tree[p])) }

\* purgeCSS({ content: ['./dist/**/*.html'] }): the html files the scan reads,
\* the html writes that are still in flight when it runs, and the rules kept.
PurgeScan ==
    [html |-> { p \in DOMAIN dist : EndsWith(p, DotHtml) },
     inflight |-> { w.path : w \in { v \in pending : EndsWith(v.path, DotHtml) } },
     kept |-> Purge(StyleRules, dist)]

\* A filter that lets every file through.
KeepAll(file) == TRUE

\* file => !file.includes('.gitkeep')
NotGitKeep(file) == ~Includes(file, GitKeep)

\* const files = readdirRecursive('assets').filter(file => !file.includes('.gitkeep'))
ListAssets ==
    /\ pc = "assets"
    /\ \/ \E l \in AssetListings(MaxAssets) :
             /\ assets' = l
             /\ files' = SelectSeq(l, NotGitKeep)
             /\ Goto("asset_next")
       \/ assets' = assets /\ files' = files /\ Throw("FilesystemError")
    /\ UNCHANGED <<env, out, postv, pagev, ai, scans>>

\* for (const filePath of files): const file = await readFile(filePath); the
\* switch on extname(filePath), with the default case's copy and continue.
AssetNext ==
    /\ pc = "asset_next"
    /\ \/ /\ ai > Len(files)
          /\ Advance("assets")
          /\ UNCHANGED <<ai, pending>>
       \/ /\ ai <= Len(files)
          /\ extname(files[ai]) = DotCss
          /\ Goto("asset_css")
          /\ UNCHANGED <<ai, pending>>
       \/ /\ ai <= Len(files)
          /\ extname(files[ai]) = DotJs
          /\ Goto("asset_js")
          /\ UNCHANGED <<ai, pending>>
       \/ /\ ai <= Len(files)
          /\ extname(files[ai]) \notin {DotCss, DotJs}
          /\ pending' = pending \cup
                { Write(resolveDist(<<files[ai]>>), File("copy", files[ai], <<>>), copyAwaited) }
          /\ ai' = ai + 1
          /\ Goto("asset_next")
       \/ /\ ai <= Len(files)
          /\ Throw("FilesystemError")
          /\ UNCHANGED <<ai, pending>>
    /\ UNCHANGED <<env, dist, unhandled, written, postv, pagev, assets, files, scans>>

\* content = await processCSSFiles(file); outputFile(resolveDist(filePath), content)
ProcessCss ==
    /\ pc = "asset_css"
    /\ \/ /\ scans' = Append(scans, PurgeScan)
          /\ pending' = pending \cup
                { Write(resolveDist(<<files[ai]>>), File("css", files[ai], <<>>), assetWriteAwaited) }
          /\ ai' = ai + 1
          /\ Goto("asset_next")
       \/ /\ Throw("AssetError")
          /\ UNCHANGED <<scans, pending, ai>>
    /\ UNCHANGED <<env, dist, unhandled, written, postv, pagev, assets, files>>

\* processJSFiles: res(terser.minify(js).code). terser reports a syntax error in
\* the result's error field, so code is undefined and nothing is thrown.
\* outputFile(resolveDist(filePath), content)
ProcessJs ==
    /\ pc = "asset_js"
    /\ \E how \in {"js", "js-undefined"} :
          pending' = pending \cup
             { Write(resolveDist(<<files[ai]>>), File(how, files[ai], <<>>), assetWriteAwaited) }
    /\ ai' = ai + 1
    /\ Goto("asset_next")
    /\ UNCHANGED <<env, dist, unhandled, written, postv, pagev, assets, files, scans>>

(***************************************************************************)
(* The program.                                                            *)
(***************************************************************************)
Next ==
    \/ Clean
    \/ ResolveConfig
    \/ ProcessConfig
    \/ Mkdirp
    \/ SetupHighlighter
    \/ ReadPostsDir
    \/ ReadLayout
    \/ PostNext
    \/ ProcessMarkdown
    \/ RenderPost
    \/ PushPost
    \/ PostsReturn
    \/ ReadPagesDir
    \/ PageNext
    \/ RenderPage
    \/ PushPage
    \/ PagesReturn
    \/ ListAssets
    \/ AssetNext
    \/ ProcessCss
    \/ ProcessJs
    \/ \E w \in pending : WriteDone(w)

Spec == Init /\ [][Next]_vars

(***************************************************************************)
(* Properties.                                                             *)
(***************************************************************************)
IsPrefix(a, b) == Len(a) <= Len(b) /\ SubSeq(b, 1, Len(a)) = a

Last(seq) == seq[Len(seq)]

SevenStages == <<"clean", "config", "filters", "highlighter", "posts", "pages", "assets">>

Success == "Build successful!" \in logged

\* C1: the stages start in the order clean, config, filters, highlighter,
\* posts, pages, assets, and when a stage has started every stage before it
\* has completed.
C1_StageOrder ==
    /\ IsPrefix(SelectSeq(started, LAMBDA st : st \in SeqToSet(SevenStages)), SevenStages)
    /\ \A i \in 1..(Len(started) - 1) : started[i] \in completed

\* A run in which all the stages have started and the build has succeeded.
C1_AllStagesRan ==
    /\ pc = "done"
    /\ SelectSeq(started, LAMBDA st : st \in SeqToSet(SevenStages)) = SevenStages
    /\ Len(posts) = 2
    /\ Len(pages) = 2

\* C2: once a stage has raised, no further stage is started and the success
\* message is not logged, whatever else still happens (writes in flight).
C2_FailFast ==
    [][err # "none" => (started' = started /\ completed' = completed /\ ~Success')]_vars

\* The asset stage has raised while a copy it started is still in flight.
C2_FailedWithWorkLeft ==
    /\ err # "none"
    /\ Last(started) = "assets"
    /\ pending # {}

ContentErrors == {"ParseError", "TemplateError"}

\* The names of a listing that the loops build (the dot files are skipped).
Built(listing) == SelectSeq(listing, LAMBDA n : ~StartsWith(n, <<".">>))

\* Every file of this run: in the output tree, written, or being written.
RunFiles ==
    { w.file : w \in pending } \cup { w.file : w \in written }
        \cup { dist[p] : p \in { q \in DOMAIN dist : dist[q].by # "prior" } }

PostPath(name) == resolveDist(<<PostUrl(name), IndexHtml>>)
PagePath(name) == resolveDist(<<PageUrl(name), IndexHtml>>)

C4_PostsFromWrittenFiles ==
    /\ \A i \in 1..Len(posts) :
          \E w \in written : w.file.by = "post" /\ w.file.data = <<posts[i]>>
    /\ \A f \in { g \in RunFiles : g.by = "page" } :
          \A i \in 1..Len(f.data) :
             \E w \in written : w.file.by = "post" /\ w.file.data = <<f.data[i]>>
    /\ postsRet = "pending" => Len(posts) = Len(Built(SubSeq(postsPath, 1, pi - 1)))
    /\ (err # "none" /\ Last(started) = "posts" /\ cur.src # <<>>) =>
          /\ \A f \in RunFiles : ~(f.by = "post" /\ f.src = cur.src)
          /\ \A f \in RunFiles : f.by # "page"
          /\ pi <= Len(postsPath) /\ postsPath[pi] = cur.src

\* The second post has malformed front matter after the first one was built.
C4_SecondPostMalformed ==
    /\ err = "ParseError"
    /\ Len(posts) = 1
    /\ cur.src # <<>>

\* C5: when the purge scan of a CSS asset runs, generatePosts and
\* generateRoutes have returned, no html write is in flight and the html file
\* of every post and of every page they built is in the output tree.
C5_PurgeAfterHtml ==
    \A i \in 1..Len(scans) :
       /\ scans[i].inflight = {}
       /\ postsRet = "array" /\ pagesRet = "array"
       /\ \A k \in 1..Len(posts) :
             resolveDist(<<posts[k]["url"].val, IndexHtml>>) \in scans[i].html
       /\ \A k \in 1..Len(pages) : PagePath(pages[k]) \in scans[i].html

\* A CSS asset was processed in a build with posts and pages.
C5_CssAfterPostsAndPages ==
    /\ Len(scans) >= 1
    /\ Len(posts) = 2
    /\ Len(pages) = 2
    /\ Cardinality(scans[1].html) = 4

\* C6 as claimed: when main reports success no write is in flight and every
\* asset file has its output or its copy in the output tree.
C6_OutputCompleteAtSuccess ==
    Success =>
        /\ pending = {}
        /\ \A i \in 1..Len(files) : resolveDist(<<files[i]>>) \in DOMAIN dist

\* While generatePosts runs, posts holds exactly one entry per file its loop is
\* done with, in the order of the listing; every page is rendered with the
\* array generatePosts returned.
C7_State ==
    /\ postsRet = "pending" =>
          /\ Len(posts) = Len(Built(SubSeq(postsPath, 1, pi - 1)))
          /\ \A i \in 1..Len(posts) : posts[i]["url"].val = PostUrl(Built(postsPath)[i])
    /\ \A f \in { g \in RunFiles : g.by = "page" } :
          /\ postsRet = "array"
          /\ f.data = posts

\* C7: posts holds one entry per built post file, in the order of the
\* directory listing, it does not change once generatePosts returns it, and
\* every page is rendered with exactly that sequence.
C7_PagesGetPostsInListingOrder ==
    /\ []C7_State
    /\ [][posts' # posts => (postsRet = "pending" /\ postsRet' = "pending")]_vars

\* Two pages were written in a build of two posts.
C7_TwoPagesOfTwoPosts ==
    /\ Len(posts) = 2
    /\ posts[1] # posts[2]
    /\ Cardinality({ w \in written : w.file.by = "page" }) = 2

\* The file name without its extension.
Stem(name) == SubSeq(name, 1, Len(name) - Len(extname(name)))

BlogPrefix == <<"/", "b", "l", "o", "g", "/">>

\* C8 as claimed: a post's url is /blog/<slug>, the slug being the file name
\* without its extension, and the post is written to blog/<slug>/index.html.
C8_PostUrlIsSlug ==
    \A w \in { v \in written : v.file.by = "post" } :
       /\ w.file.data[1]["url"].val = BlogPrefix \o Stem(w.file.src)
       /\ w.path = Tail(BlogPrefix) \o Stem(w.file.src) \o <<"/">> \o IndexHtml

\* The url the claim gives a page: the file name without its extension, and
\* without the name index when that is all that is left.
ClaimedPageUrl(name) ==
    IF Stem(name) = <<"i", "n", "d", "e", "x">> THEN <<"/">> ELSE <<"/">> \o Stem(name)

\* C9 as claimed: a page is written to the path made of its file name without
\* the extension and without a trailing index, followed by index.html.
C9_PageUrlStripsIndexAndExtension ==
    \A w \in { v \in written : v.file.by = "page" } :
       w.path = resolveDist(<<ClaimedPageUrl(w.file.src), IndexHtml>>)

\* C10: every entry of posts, and the data every post layout is rendered
\* with, holds the keys content, url, createdAt and updatedAt.
C10_ReservedKeysPresent ==
    /\ \A i \in 1..Len(posts) : ReservedKeys \subseteq DOMAIN posts[i]
    /\ \A f \in { g \in RunFiles : g.by = "post" } : ReservedKeys \subseteq DOMAIN f.data[1]

\* A post without front matter and a post whose front matter defines the four
\* names have both been built.
C10_WithAndWithoutFrontMatter ==
    /\ Len(posts) = 2
    /\ DOMAIN posts[1] = ReservedKeys
    /\ DOMAIN posts[2] = ReservedKeys \cup {"title"}

\* C11 as claimed: a JS asset with a syntax error ends the build with an
\* AssetError, so no file of the run is ever written from the undefined result
\* its minification gives.
C11_JsSyntaxErrorFailsAsset ==
    \A f \in RunFiles : f.by # "js-undefined"

\* C12: while a post's Markdown is parsed and rendered the highlighter is
\* ready and the highlight hook is installed, so every Markdown body of the
\* build, in the posts sequence and in the post files, went through the hook.
C12_HighlighterReadyBeforeMarkdown ==
    /\ pc \in {"post_markdown", "post_render", "post_push"} => (hl = "ready" /\ hook)
    /\ cur.content # "plain"
    /\ \A i \in 1..Len(posts) : posts[i]["content"] = Computed(<<"highlighted">>)
    /\ \A f \in { g \in RunFiles : g.by = "post" } :
          f.data[1]["content"] = Computed(<<"highlighted">>)

\* The Markdown of a first post has been parsed, its file is not rendered yet.
C12_FirstMarkdownParsed ==
    /\ pc = "post_render"
    /\ cur.content = "highlighted"
    /\ posts = <<>>

\* Every render call so far ran with all the filters of the config registered.
C13_State ==
    \A r \in renders : config = "object" => ConfigFilters \subseteq r

\* C13: every filter of the config is in the template engine's registry at
\* each render call, the first one included, and no step changes the registry
\* once a render call has been made.
C13_FiltersRegisteredBeforeRender ==
    /\ []C13_State
    /\ [][renders # {} => filters' = filters]_vars

\* A post and a page have been rendered in a build whose config has filters.
C13_RenderedWithFilters ==
    /\ config = "object"
    /\ renders = {ConfigFilters}
    /\ Len(posts) >= 1
    /\ Len(pages) >= 1

\* C14: no file of the earlier build is left under dist once this build has
\* started a write, and when the build reports success every file under dist
\* is one that a write of this build put there.
C14_OnlyFilesOfThisRun ==
    /\ (pending # {} \/ written # {} \/ unhandled # {}) =>
          \A p \in DOMAIN dist : dist[p].by # "prior"
    /\ Success =>
          \A p \in DOMAIN dist : [path |-> p, file |-> dist[p]] \in written

\* A build over the tree of an earlier build has succeeded and has written
\* index.html, a path the earlier tree may hold too.
C14_RebuiltOverStaleTree ==
    /\ Success
    /\ IndexHtml \in DOMAIN dist
    /\ StaleFile \notin DOMAIN dist

\* A write of one of the kinds, made from the asset file, to the path below
\* dist that mirrors the file's path, has been started (it may be pending,
\* finished, or have failed with nobody awaiting it).
AssetWriteStarted(file, kinds) ==
    \/ \E w \in pending \cup written :
          /\ w.path = file
          /\ w.file.src = file
          /\ w.file.by \in kinds
    \/ file \in unhandled

\* Every write started for the asset file is of one of the kinds.
AssetWritesOnly(file, kinds) ==
    \A w \in pending \cup written : w.file.src = file => (w.file.by \in kinds /\ w.path = file)

AssetKinds(file) ==
    CASE extname(file) = DotCss -> {"css"}
      [] extname(file) = DotJs -> {"js", "js-undefined"}
      [] OTHER -> {"copy"}

\* C15 as claimed: when the asset stage has completed, every file below
\* assets/ whose extension is neither .css nor .js has been handed to copy,
\* untransformed, for the path that mirrors it, every .css file to the CSS
\* chain and every .js file to the minification.
C15_EveryAssetDispatched ==
    "assets" \in completed =>
        \A i \in 1..Len(assets) :
           LET kinds == AssetKinds(assets[i])
           IN  AssetWriteStarted(assets[i], kinds) /\ AssetWritesOnly(assets[i], kinds)

\* C15 as amended: a file whose path includes .gitkeep is not processed and
\* nothing is written for it; every other file the loop is done with has been
\* handed to copy, untransformed, for the path that mirrors it when its
\* extension is neither .css nor .js, to the CSS chain when it is .css and to
\* the minification when it is .js.
C15_AssetsDispatchedButGitKeep ==
    /\ files = SelectSeq(assets, LAMBDA f : ~Includes(f, GitKeep))
    /\ \A i \in 1..Len(assets) :
          assets[i] \notin SeqToSet(files) =>
             /\ \A w \in pending \cup written : w.file.src # assets[i]
             /\ assets[i] \notin unhandled
    /\ \A i \in 1..(ai - 1) :
          LET kinds == AssetKinds(files[i])
          IN  /\ AssetWriteStarted(files[i], kinds)
              /\ AssetWritesOnly(files[i], kinds)
              /\ kinds = {"css"} => Len(scans) >= 1
    /\ \A i \in ai..Len(files) : \A w \in pending \cup written : w.file.src # files[i]

\* The asset stage has completed over a tree holding .gitkeep and an image:
\* the image has been copied.
C15_ImageCopiedGitKeepSkipped ==
    /\ "assets" \in completed
    /\ Len(assets) = 2
    /\ Includes(assets[1], GitKeep)
    /\ files = <<assets[2]>>
    /\ \E w \in written : w.file.by = "copy" /\ w.path = files[1]

\* The class names that appear in the html files this build has written.
ClassesWritten ==
    UNION { SeqToSet(TemplateClasses(w.file)) : w \in { v \in written : EndsWith(v.path, DotHtml) } }

\* C16 as claimed: a purge never removes the rule of a class whose name
\* appears in an html file that this build has written.
C16_PurgeKeepsUsedClasses ==
    \A i \in 1..Len(scans) : (ClassesWritten \cap StyleRules) \subseteq scans[i].kept

\* C17 as claimed: no path under dist is written more than once in a build:
\* two writes of the build to the same path are the write of the same file.
C17_WriteOnce ==
    \A w1, w2 \in written : w1.path = w2.path => w1.file.src = w2.file.src

\* The page files of the output tree.
PagesOf(tree) ==
    [p \in { q \in DOMAIN tree : tree[q].by = "page" } |-> tree[p]]

\* generateRoutes is about to return: its loop is done with the listing.
RoutesDone == pc = "page_next" /\ gi > Len(pagesPath)

\* The listings that hold the same page files as pagesPath, in any order.
Reorderings ==
    { l \in Listings(PageNames, MaxPages) :
        Len(l) = Len(pagesPath) /\ SeqToSet(l) = SeqToSet(pagesPath) }

\* When generateRoutes is about to return, the page files in the output tree
\* are those RoutesTree gives for the listing it read.
RoutesTreeIsTheLoop ==
    RoutesDone => PagesOf(dist) = RoutesTree(pagesPath, posts, EmptyTree)

\* C18 as claimed: the page files generateRoutes leaves in the output tree,
\* paths and contents, are those it leaves for every other order of the same
\* page files, with the same posts.
C18_PageOrderIrrelevant ==
    RoutesDone =>
        \A l \in Reorderings : RoutesTree(l, posts, EmptyTree) = PagesOf(dist)

\* C19 as claimed: a posts directory or a pages directory without entries
\* does not make the build fail: after generatePosts or generateRoutes has
\* bailed out on an empty listing, main is not ended by an exception.
C19_EmptyDirectoryDoesNotFail ==
    (postsRet = "undefined" \/ pagesRet = "undefined") => pc # "failed"

\* The values the pipeline computes for the post file src are under the four
\* names in md, and every other key of md holds its front-matter value.
ComputedKeysWin(md, src) ==
    /\ md["url"].from = "computed" /\ IsPrefix(BlogPrefix, md["url"].val)
    /\ md["content"].from = "computed"
    /\ md["createdAt"] = Computed(<<"birthtime">>)
    /\ md["updatedAt"] = Computed(<<"mtime">>)
    /\ \A k \in DOMAIN md \ ReservedKeys : md[k] = FrontMatterValue

\* C20: in the data a post layout is rendered with, and in the post's entry
\* of posts, the keys content, url, createdAt and updatedAt hold the values
\* the pipeline computed, whatever the front matter defines under them, and
\* every other key of the front matter is there with its front-matter value.
C20_ComputedKeysReplaceFrontMatter ==
    /\ \A f \in { g \in RunFiles : g.by = "post" } : ComputedKeysWin(f.data[1], f.src)
    /\ postsRet = "pending" =>
          \A i \in 1..Len(posts) : ComputedKeysWin(posts[i], postsPath[i])
    /\ pc = "post_push" =>
          \E w \in pending \cup written :
             /\ w.file.by = "post" /\ w.file.src = cur.src
             /\ DOMAIN w.file.data[1] = DOMAIN cur.data \cup ReservedKeys

\* A post whose front matter defines the four names and a title has been
\* written and is about to be pushed.
C20_FrontMatterDefinesComputedKeys ==
    /\ pc = "post_push"
    /\ DOMAIN cur.data = ReservedKeys \cup {"title"}
    /\ \E w \in written : w.file.by = "post" /\ w.file.src = cur.src

====
